---- MODULE Spec2Model ----
(***************************************************************************)
(* Model of the geospatial accessibility and zonal-aggregation core of the *)
(* health-facility accessibility pipeline:                                 *)
(*   - AccessibilityAnalyzer  (src/src/analysis/accessibility.py)          *)
(*   - StatisticsAnalyzer     (src/src/analysis/statistics.py)             *)
(*   - VectorProcessor        (src/src/processor/vector.py)                *)
(*   - PopulationZonalExtractor (src/src/population/zonal_extractor.py)    *)
(*   - RasterProcessor.extract_population_by_zones and merge_rasters       *)
(*                            (src/src/processor/raster.py)                *)
(*   - Pipeline.run           (src/src/pipeline.py)                        *)
(*                                                                         *)
(* Conventions.  A Python None is the empty tuple <<>> and a present value *)
(* v is <<v>>.  A float that the model must keep exact is a rational       *)
(* [num, den] with den > 0.  A Euclidean distance sqrt(sq)/div is the      *)
(* record [sq, div]: the encoding is exact and order preserving.           *)
(***************************************************************************)
EXTENDS Integers, Sequences, FiniteSets, TLC

VARIABLES grid, acc, vec, zx, pl, mr

vars == <<grid, acc, vec, zx, pl, mr>>

(***************************************************************************)
(* Shared helpers                                                          *)
(***************************************************************************)
None == <<>>
Some(v) == <<v>>

Min(S) == CHOOSE m \in S : \A x \in S : m <= x
Max(S) == CHOOSE m \in S : \A x \in S : x <= m

SeqsUpTo(S, n) == UNION { [1..k -> S] : k \in 0..n }
NonEmptySeqsUpTo(S, n) == UNION { [1..k -> S] : k \in 1..n }

Rat(n, d) == [num |-> n, den |-> d]
RatEqInt(r, i) == r.num = i * r.den

\* config.py _default_config
crs_utm == 32737
crs_wgs84 == 4326

CRSValues == {None, Some(crs_wgs84), Some(crs_utm)}

(***************************************************************************)
(* AccessibilityAnalyzer.create_population_grid                            *)
(***************************************************************************)
MaxBoundaries == 2
MaxGridSize == 3

\* The x and y extents the boundary polygons of the model are drawn from.
XRanges == { <<0, 4>>, <<4, 10>>, <<2, 2>> }
YRanges == { <<0, 6>>, <<3, 9>>, <<5, 5>> }

\* A boundary polygon, by its bounds (geometry.bounds).
BoundaryGeoms ==
    { [minx |-> xr[1], miny |-> yr[1], maxx |-> xr[2], maxy |-> yr[2]] :
          xr \in XRanges, yr \in YRanges }

BoundarySets ==
    [crs : CRSValues, rows : NonEmptySeqsUpTo(BoundaryGeoms, MaxBoundaries)]

\* GeoDataFrame.total_bounds: the envelope of all the geometries.
total_bounds(gdf) ==
    [minx |-> Min({ gdf.rows[i].minx : i \in DOMAIN gdf.rows }),
     miny |-> Min({ gdf.rows[i].miny : i \in DOMAIN gdf.rows }),
     maxx |-> Max({ gdf.rows[i].maxx : i \in DOMAIN gdf.rows }),
     maxy |-> Max({ gdf.rows[i].maxy : i \in DOMAIN gdf.rows })]

\* A linspace without its end point: step (stop - start) / num.
linspace_no_endpoint(start, stop, num) ==
    [i \in 1..num |-> Rat(start * num + (i - 1) * (stop - start), num)]

\* np.linspace(start, stop, num): start + i * (stop - start) / (num - 1) for
\* i = 0..num-1; with num = 1 the single sample is start.
linspace(start, stop, num) ==
    IF num <= 1
    THEN [i \in 1..num |-> Rat(start, 1)]
    ELSE [i \in 1..num |->
             Rat(start * (num - 1) + (i - 1) * (stop - start), num - 1)]

\* The comprehension "for x in xs for y in ys": x is the outer loop.
create_population_grid(boundaries, grid_size) ==
    LET b == total_bounds(boundaries)
        xs == linspace(b.minx, b.maxx, grid_size)
        ys == linspace(b.miny, b.maxy, grid_size)
        n == Len(ys)
    IN [crs |-> boundaries.crs,
        rows |-> [k \in 1..(Len(xs) * n) |->
                     [x |-> xs[((k - 1) \div n) + 1],
                      y |-> ys[((k - 1) % n) + 1]]]]

GridIdle == [pc |-> "idle"]

CreatePopulationGrid ==
    /\ grid.pc = "idle"
    /\ \E b \in BoundarySets, n \in 1..MaxGridSize :
          grid' = [pc |-> "created", boundaries |-> b, grid_size |-> n,
                   result |-> create_population_grid(b, n)]
    /\ UNCHANGED <<acc, vec, zx, pl, mr>>

(***************************************************************************)
(* AccessibilityAnalyzer.calculate_distances / classify_accessibility /    *)
(* analyze and StatisticsAnalyzer.calculate_stats                          *)
(*                                                                         *)
(* Coordinates are metres in the planar CRS.  A distance is the record     *)
(* [sq, div], standing for sqrt(sq) / div.                                 *)
(***************************************************************************)
MaxPoints == 2
MaxFacilities == 2

PopulationPoints == { <<0, 0>>, <<3000, 4000>>, <<0, 12000>> }
FacilityPoints == { <<0, 0>>, <<3000, 4000>>, <<6000, 8000>> }

\* config['analysis']['accessibility_threshold_km'], as configurations give it.
ConfigThresholdLists == { <<>>, <<5>>, <<5, 10>>, <<10, 5>> }

\* A facility set: the index label of a row is not its position (rows were
\* dropped by filtering and clipping), the geometry is a point.
FacilityRow(pos, pt) == [label |-> 2 * pos + 1, x |-> pt[1], y |-> pt[2]]
FacilitySets ==
    { [i \in DOMAIN s |-> FacilityRow(i, s[i])] :
          s \in SeqsUpTo(FacilityPoints, MaxFacilities) }

\* A population frame that has only its geometry column.
PopulationFrame(pts) ==
    [geometry |-> pts,
     nearest_facility_idx |-> None,
     distance_to_facility_m |-> None,
     distance_to_facility_km |-> None,
     within |-> <<>>]
PopulationFrames ==
    { PopulationFrame(s) : s \in NonEmptySeqsUpTo(PopulationPoints, MaxPoints) }

\* GeoSeries.distance(geom): the Euclidean distance of every facility to geom.
DistSq(f, geom) ==
    (f.x - geom[1]) * (f.x - geom[1]) + (f.y - geom[2]) * (f.y - geom[2])
FacilitiesDistance(facilities, geom) ==
    [i \in DOMAIN facilities |-> DistSq(facilities[i], geom)]

\* Series.idxmin(): the index label of the first minimum.
IdxMin(facilities, d) ==
    facilities[CHOOSE i \in DOMAIN d :
                  /\ \A j \in DOMAIN d : d[i] <= d[j]
                  /\ \A j \in DOMAIN d : j < i => d[j] > d[i]].label

\* The 0-based position of the last minimum.
ArgMinLast(facilities, d) ==
    (CHOOSE i \in DOMAIN d :
        /\ \A j \in DOMAIN d : d[i] <= d[j]
        /\ \A j \in DOMAIN d : j > i => d[j] > d[i]) - 1

\* Series.argmin(): the 0-based position of the first minimum.
ArgMin(facilities, d) ==
    (CHOOSE i \in DOMAIN d :
        /\ \A j \in DOMAIN d : d[i] <= d[j]
        /\ \A j \in DOMAIN d : j < i => d[j] > d[i]) - 1

\* Series.max().
SeriesMax(d) == Max({ d[i] : i \in DOMAIN d })

\* Series.min().
SeriesMin(d) == Min({ d[i] : i \in DOMAIN d })

\* distance_to_facility_m / 1000.
DivideBy1000(m) == [sq |-> m.sq, div |-> m.div * 1000]

\* calculate_distances: argmin of an empty Series raises ValueError, so an
\* empty facility set fails before any column is assigned.
calculate_distances(facilities, population) ==
    IF Len(facilities) = 0
    THEN [ok |-> FALSE, error |-> "ValueError", population |-> population]
    ELSE LET idx == [i \in DOMAIN population.geometry |->
                        ArgMin(facilities,
                               FacilitiesDistance(facilities, population.geometry[i]))]
             m == [i \in DOMAIN population.geometry |->
                      [sq |-> SeriesMin(FacilitiesDistance(facilities,
                                                           population.geometry[i])),
                       div |-> 1]]
             km == [i \in DOMAIN m |-> DivideBy1000(m[i])]
         IN [ok |-> TRUE, error |-> "",
             population |-> [population EXCEPT
                                !.nearest_facility_idx = Some(idx),
                                !.distance_to_facility_m = Some(m),
                                !.distance_to_facility_km = Some(km)]]

DistanceGE(distance, threshold) ==
    distance.sq >= (threshold * distance.div) * (threshold * distance.div)

DistanceLT(distance, threshold) ==
    distance.sq < (threshold * distance.div) * (threshold * distance.div)

\* distance <= threshold, for one row.
DistanceLE(distance, threshold) ==
    distance.sq <= (threshold * distance.div) * (threshold * distance.div)

\* sorted(thresholds_km)
sorted(s) == SortSeq(s, <)

\* population[f'within_{threshold}km'] = distance <= threshold
AssignWithin(within, distance, threshold) ==
    [t \in (DOMAIN within) \cup {threshold} |->
        IF t = threshold
        THEN [i \in DOMAIN distance |-> DistanceLE(distance[i], threshold)]
        ELSE within[t]]

RECURSIVE ClassifyLoop(_, _, _)
ClassifyLoop(within, distance, thresholds) ==
    IF thresholds = <<>>
    THEN within
    ELSE ClassifyLoop(AssignWithin(within, distance, Head(thresholds)),
                      distance, Tail(thresholds))

\* classify_accessibility: thresholds_km = None takes the configured list.
classify_accessibility(population, thresholds_km, config) ==
    LET thresholds == IF thresholds_km = None THEN config ELSE thresholds_km[1]
    IN IF population.distance_to_facility_km = None
       THEN [ok |-> FALSE, error |-> "KeyError", population |-> population]
       ELSE [ok |-> TRUE, error |-> "",
             population |->
                 [population EXCEPT
                     !.within = ClassifyLoop(population.within,
                                             population.distance_to_facility_km[1],
                                             sorted(thresholds))]]

\* analyze classifying with a list of its own, whatever is configured.
analyze_fixed_thresholds(facilities, population, config) ==
    LET d == calculate_distances(facilities, population)
    IN IF d.ok THEN classify_accessibility(d.population, Some(<<5>>), config) ELSE d

\* analyze: calculate_distances, then classify_accessibility with no list.
analyze(facilities, population, config) ==
    LET d == calculate_distances(facilities, population)
    IN IF d.ok THEN classify_accessibility(d.population, None, config) ELSE d

\* A float result: None is NaN.
NaN == None

CountTrue(flags) == Cardinality({ i \in DOMAIN flags : flags[i] })

\* An entry whose percentage is left as the fraction count / n.
ThresholdEntryFraction(flags, n) ==
    [count |-> CountTrue(flags),
     percentage |-> IF n = 0 THEN NaN ELSE Some(Rat(CountTrue(flags), n))]

\* One entry of accessibility_by_threshold.  count is a numpy integer, so
\* count / 0 is NaN and raises nothing.
ThresholdEntry(flags, n) ==
    [count |-> CountTrue(flags),
     percentage |-> IF n = 0 THEN NaN ELSE Some(Rat(CountTrue(flags) * 100, n))]

\* calculate_stats: the descriptors of an empty column are NaN (std also of a
\* single row); a threshold whose column is missing raises KeyError.
calculate_stats(facilities, accessibility, config) ==
    LET n == Len(accessibility.geometry)
        thresholds == { config[k] : k \in DOMAIN config }
    IN IF accessibility.distance_to_facility_km = None
       THEN [ok |-> FALSE, error |-> "KeyError", stats |-> None]
       ELSE LET km == accessibility.distance_to_facility_km[1]
                sqs == { km[i].sq : i \in DOMAIN km }
                descriptors ==
                    [mean_km |-> IF n = 0 THEN "nan" ELSE "finite",
                     median_km |-> IF n = 0 THEN "nan" ELSE "finite",
                     std_km |-> IF n <= 1 THEN "nan" ELSE "finite",
                     min_km |-> IF n = 0 THEN NaN
                                ELSE Some([sq |-> Min(sqs), div |-> 1000]),
                     max_km |-> IF n = 0 THEN NaN
                                ELSE Some([sq |-> Max(sqs), div |-> 1000])]
            IN IF \E t \in thresholds : t \notin DOMAIN accessibility.within
               THEN [ok |-> FALSE, error |-> "KeyError", stats |-> None]
               ELSE [ok |-> TRUE, error |-> "",
                     stats |-> Some(
                         [total_facilities |-> Len(facilities),
                          distance_statistics |-> descriptors,
                          accessibility_by_threshold |->
                              [t \in thresholds |->
                                  ThresholdEntry(accessibility.within[t], n)]])]

AccIdle == [pc |-> "idle"]

AccState(pc, facilities, population, config, error, stats) ==
    [pc |-> pc, facilities |-> facilities, population |-> population,
     config |-> config, error |-> error, stats |-> stats, last |-> "load",
     thresholds_km |-> None, classified_by |-> "caller",
     input |-> population.geometry]

\* A caller holding a facility set, a fresh population frame and a configuration.
AccLoad ==
    /\ acc.pc = "idle"
    /\ \E f \in FacilitySets, p \in PopulationFrames, c \in ConfigThresholdLists :
          acc' = AccState("ready", f, p, c, "", None)
    /\ UNCHANGED <<grid, vec, zx, pl, mr>>

\* A caller holding an accessibility set of zero records: the columns of a
\* classified frame, no rows.
AccLoadEmpty ==
    /\ acc.pc = "idle"
    /\ \E f \in FacilitySets, c \in ConfigThresholdLists :
          acc' = AccState("classified", f,
                          [geometry |-> <<>>,
                           nearest_facility_idx |-> Some(<<>>),
                           distance_to_facility_m |-> Some(<<>>),
                           distance_to_facility_km |-> Some(<<>>),
                           within |-> [t \in { c[k] : k \in DOMAIN c } |-> <<>>]],
                          c, "", None)
    /\ UNCHANGED <<grid, vec, zx, pl, mr>>

AccStep(r, pcOk, op, thresholds_km) ==
    acc' = [acc EXCEPT !.pc = IF r.ok THEN pcOk ELSE "failed",
                       !.population = r.population,
                       !.error = r.error,
                       !.last = op,
                       !.thresholds_km = thresholds_km,
                       !.classified_by = IF op = "calculate_distances" THEN @ ELSE op]

CalculateDistances ==
    /\ acc.pc = "ready"
    /\ AccStep(calculate_distances(acc.facilities, acc.population), "distances",
               "calculate_distances", None)
    /\ UNCHANGED <<grid, vec, zx, pl, mr>>

ClassifyAccessibility ==
    /\ acc.pc = "distances"
    /\ \E t \in {None} \cup { Some(l) : l \in ConfigThresholdLists } :
          AccStep(classify_accessibility(acc.population, t, acc.config),
                  "classified", "classify_accessibility", t)
    /\ UNCHANGED <<grid, vec, zx, pl, mr>>

Analyze ==
    /\ acc.pc = "ready"
    /\ AccStep(analyze(acc.facilities, acc.population, acc.config), "classified",
               "analyze", None)
    /\ UNCHANGED <<grid, vec, zx, pl, mr>>

CalculateStats ==
    /\ acc.pc = "classified"
    /\ LET r == calculate_stats(acc.facilities, acc.population, acc.config)
       IN acc' = [acc EXCEPT !.pc = IF r.ok THEN "stats" ELSE "failed",
                             !.error = r.error,
                             !.stats = r.stats,
                             !.last = "calculate_stats"]
    /\ UNCHANGED <<grid, vec, zx, pl, mr>>

(***************************************************************************)
(* Coordinate reference systems.  A coordinate in a CRS is the world       *)
(* coordinate times the CRS's units per world unit, so a transform changes *)
(* every coordinate unless the two CRSs are the same.                      *)
(***************************************************************************)
UnitsOf(epsg) == IF epsg = crs_utm THEN 100 ELSE 1

Transform(from, to, v) == (v * UnitsOf(to)) \div UnitsOf(from)

(***************************************************************************)
(* VectorProcessor: reproject, remove_empty_geometry, clip_to_bounds       *)
(*                                                                         *)
(* A feature set is [crs, rows]; a row is [label, geom]; a geometry is     *)
(* null (Python None), empty, a point, or a zone polygon (see the zonal    *)
(* extractor).                                                             *)
(***************************************************************************)
MaxFeatures == 2

NullGeom == [kind |-> "null", x |-> 0, y |-> 0]
EmptyGeom == [kind |-> "empty", x |-> 0, y |-> 0]
PointGeom(x, y) == [kind |-> "point", x |-> x, y |-> y]

FeatureGeoms == { NullGeom, EmptyGeom, PointGeom(1, 1), PointGeom(300, 300) }

FeatureSets ==
    { [crs |-> c, rows |-> [i \in DOMAIN g |-> [label |-> i - 1, geom |-> g[i]]]] :
          c \in CRSValues, g \in SeqsUpTo(FeatureGeoms, MaxFeatures) }

ClipBoundaries ==
    { [crs |-> c,
       rows |-> << [minx |-> 0, miny |-> 0, maxx |-> e, maxy |-> e] >>] :
          c \in CRSValues, e \in {4, 400} }

\* GeoDataFrame.set_crs(crs, inplace=True): tags the frame, moves nothing.
set_crs(gdf, epsg) == [gdf EXCEPT !.crs = Some(epsg)]

TransformGeom(g, from, to) ==
    IF g.kind = "point"
    THEN PointGeom(Transform(from, to, g.x), Transform(from, to, g.y))
    ELSE IF g.kind = "polygon"
         THEN [g EXCEPT !.lo = Transform(from, to, @), !.hi = Transform(from, to, @)]
         ELSE g

\* GeoDataFrame.to_crs(epsg): a frame without a CRS cannot be transformed.
to_crs(gdf, epsg) ==
    IF gdf.crs = None
    THEN [ok |-> FALSE, error |-> "ValueError", gdf |-> gdf]
    ELSE [ok |-> TRUE, error |-> "",
          gdf |-> [crs |-> Some(epsg),
                   rows |-> [i \in DOMAIN gdf.rows |->
                                [gdf.rows[i] EXCEPT
                                    !.geom = TransformGeom(@, gdf.crs[1], epsg)]]]]

\* reproject without the default: the frame goes to to_crs as it is.
reproject_no_default(gdf, crs) == to_crs(gdf, crs)

\* reproject: an unset CRS is first set to config['crs_wgs84'].
reproject(gdf, crs) ==
    to_crs(IF gdf.crs = None THEN set_crs(gdf, crs_wgs84) ELSE gdf, crs)

\* GeoSeries.is_empty: False for a missing (None) geometry.
is_empty(g) == g.kind = "empty"

\* remove_empty_geometry: gdf[~gdf.geometry.is_empty].copy()
remove_empty_geometry(gdf) ==
    LET keep(row) == ~is_empty(row.geom)
    IN [gdf EXCEPT !.rows = SelectSeq(gdf.rows, keep)]

Intersects(g, box) ==
    /\ g.kind = "point"
    /\ box.minx <= g.x /\ g.x <= box.maxx
    /\ box.miny <= g.y /\ g.y <= box.maxy

\* clip_to_bounds: gpd.clip(gdf, bounds) keeps what intersects the boundary
\* polygons, comparing coordinates as they are; a CRS mismatch is only warned
\* about.  Neither input is changed.
clip_to_bounds(gdf, bounds) ==
    LET keep(row) == \E k \in DOMAIN bounds.rows : Intersects(row.geom, bounds.rows[k])
    IN [ok |-> TRUE, error |-> "",
        warned |-> gdf.crs # bounds.crs,
        clipped |-> Some([gdf EXCEPT !.rows = SelectSeq(gdf.rows, keep)])]

VecIdle == [pc |-> "idle"]

VecLoad ==
    /\ vec.pc = "idle"
    /\ \E g \in FeatureSets, b \in ClipBoundaries :
          vec' = [pc |-> "loaded", orig |-> g, gdf |-> g, bounds |-> b,
                  done |-> {}, last |-> "load", arg |-> g, target |-> None,
                  error |-> "", clipped |-> None]
    /\ UNCHANGED <<grid, acc, zx, pl, mr>>

Reproject ==
    /\ vec.pc = "loaded"
    /\ "reproject" \notin vec.done
    /\ \E crs \in {crs_wgs84, crs_utm} :
          LET r == reproject(vec.gdf, crs)
          IN vec' = [vec EXCEPT !.pc = IF r.ok THEN "loaded" ELSE "failed",
                                !.gdf = r.gdf, !.error = r.error,
                                !.done = @ \cup {"reproject"},
                                !.last = "reproject",
                                !.arg = vec.gdf, !.target = Some(crs)]
    /\ UNCHANGED <<grid, acc, zx, pl, mr>>

RemoveEmptyGeometry ==
    /\ vec.pc = "loaded"
    /\ "remove_empty_geometry" \notin vec.done
    /\ vec' = [vec EXCEPT !.gdf = remove_empty_geometry(vec.gdf),
                          !.done = @ \cup {"remove_empty_geometry"},
                          !.last = "remove_empty_geometry",
                          !.arg = vec.gdf]
    /\ UNCHANGED <<grid, acc, zx, pl, mr>>

ClipToBounds ==
    /\ vec.pc = "loaded"
    /\ LET r == clip_to_bounds(vec.gdf, vec.bounds)
       IN vec' = [vec EXCEPT !.pc = IF r.ok THEN "clipped" ELSE "failed",
                             !.error = r.error, !.clipped = r.clipped,
                             !.last = "clip_to_bounds", !.arg = vec.gdf]
    /\ UNCHANGED <<grid, acc, zx, pl, mr>>

(***************************************************************************)
(* Zonal statistics: PopulationZonalExtractor.run and                      *)
(* RasterProcessor.extract_population_by_zones                             *)
(*                                                                         *)
(* The raster is one row of cells; cell k spans the world extent           *)
(* [4(k-1), 4k] and its centre is at 4k-2.  A zone polygon spans the       *)
(* row's height and the x extent [lo, hi], given in the zone set's CRS; a  *)
(* polygon with valid = FALSE is one the statistics call cannot process.   *)
(***************************************************************************)
MaxZones == 3

\* World x extents of the zones: inside cell 1 around its centre; across the
\* edge of cells 1 and 2 with no centre inside; over both cells; off the
\* raster; over the raster's full extent and beyond.
ZoneExtents == { <<1, 3>>, <<3, 5>>, <<1, 7>>, <<9, 11>>, <<-1, 9>> }

ZoneShapes ==
    { [ext |-> e, valid |-> TRUE] : e \in ZoneExtents }
        \cup { [ext |-> <<1, 7>>, valid |-> FALSE] }

ZoneUnits(crs) == IF crs = None THEN 1 ELSE UnitsOf(crs[1])

ZoneGeom(crs, shape) ==
    [kind |-> "polygon",
     lo |-> shape.ext[1] * ZoneUnits(crs),
     hi |-> shape.ext[2] * ZoneUnits(crs),
     valid |-> shape.valid]

\* gpd.read_file gives the rows a RangeIndex.
ZoneSets ==
    { [crs |-> c,
       rows |-> [i \in DOMAIN g |-> [label |-> i - 1, geom |-> ZoneGeom(c, g[i])]]] :
          c \in CRSValues, g \in SeqsUpTo(ZoneShapes, MaxZones) }

\* Cell values of the rasters; None is a cell holding the raster's nodata.
RasterTemplates ==
    { <<Some(7), Some(3)>>, <<Some(7), None>>, <<None, None>>,
      <<Some(7), Some(7)>>, <<Some(3)>> }

Rasters ==
    { [crs |-> Some(c), nodata |-> nd,
       cells |-> [k \in DOMAIN t |-> IF t[k] = None THEN nd ELSE t[k][1]]] :
          c \in {crs_wgs84, crs_utm}, nd \in {-200, -9999}, t \in RasterTemplates }

\* nodata=-200 in extract_population_by_zones
ExtractNodata == -200

CellLo(raster, k) == 4 * (k - 1) * UnitsOf(raster.crs[1])
CellHi(raster, k) == 4 * k * UnitsOf(raster.crs[1])
CellCentre(raster, k) == (4 * k - 2) * UnitsOf(raster.crs[1])

\* The cells a polygon selects: those whose centre is inside it, or with
\* all_touched every cell it overlaps.  The polygon's coordinates are read
\* as coordinates of the raster's CRS.
CellsOf(geom, raster, all_touched) ==
    { k \in DOMAIN raster.cells :
        IF all_touched
        THEN geom.lo < CellHi(raster, k) /\ CellLo(raster, k) < geom.hi
        ELSE geom.lo < CellCentre(raster, k) /\ CellCentre(raster, k) < geom.hi }

\* The largest selected value in place of the total.
SumCellsMax(raster, ks) ==
    IF ks = {} THEN 0 ELSE Max({ raster.cells[k] : k \in ks })

RECURSIVE SumCells(_, _)
SumCells(raster, ks) ==
    IF ks = {}
    THEN 0
    ELSE LET k == CHOOSE c \in ks : TRUE
         IN raster.cells[k] + SumCells(raster, ks \ {k})

\* rasterstats.zonal_stats for one polygon: cells equal to nodata are masked;
\* with no cell left sum and mean are None and count is 0.
zonal_stats(geom, raster, nodata, all_touched) ==
    LET ks == { k \in CellsOf(geom, raster, all_touched) : raster.cells[k] # nodata }
        total == SumCells(raster, ks)
    IN IF ~geom.valid
       THEN [ok |-> FALSE, sum |-> None, mean |-> None, count |-> 0]
       ELSE [ok |-> TRUE,
             sum |-> IF ks = {} THEN None ELSE Some(total),
             mean |-> IF ks = {} THEN None ELSE Some(Rat(total, Cardinality(ks))),
             count |-> Cardinality(ks)]

MatchResult(ok, error, gdf, reprojected) ==
    [ok |-> ok, error |-> error, gdf |-> gdf, reprojected |-> reprojected]

NoReproject(gdf, raster) == MatchResult(TRUE, "", gdf, FALSE)

\* run: if gdf.crs != src.crs: gdf = gdf.to_crs(src.crs)
RunMatchCRS(gdf, raster) ==
    IF gdf.crs # raster.crs
    THEN LET r == to_crs(gdf, raster.crs[1])
         IN MatchResult(r.ok, r.error, r.gdf, r.ok)
    ELSE MatchResult(TRUE, "", gdf, FALSE)

\* extract_population_by_zones: if zones.crs != src.crs: zones = zones.to_crs(src.crs)
ExtractMatchCRS(zones, raster) ==
    IF zones.crs # raster.crs
    THEN LET r == to_crs(zones, raster.crs[1])
         IN MatchResult(r.ok, r.error, r.gdf, r.ok)
    ELSE MatchResult(TRUE, "", zones, FALSE)

\* The loop body without its try/except: the failure leaves the loop.
RunRecordUncaught(row, raster) ==
    LET stat == zonal_stats(row.geom, raster, raster.nodata, FALSE)
    IN IF stat.ok
       THEN [raised |-> FALSE, pop |-> IF stat.sum # None THEN stat.sum[1] ELSE 0]
       ELSE [raised |-> TRUE, pop |-> 0]

\* run, the loop body: the statistic of one row; a None sum and a failure
\* both give 0.
RunRecord(row, raster) ==
    LET stat == zonal_stats(row.geom, raster, raster.nodata, FALSE)
    IN IF stat.ok
       THEN [raised |-> FALSE, pop |-> IF stat.sum # None THEN stat.sum[1] ELSE 0]
       ELSE [raised |-> FALSE, pop |-> 0]

\* run: gdf['population'] = populations
AssignPopulation(gdf, populations) ==
    [gdf EXCEPT !.rows = [i \in DOMAIN gdf.rows |->
                             [label |-> gdf.rows[i].label,
                              geom |-> gdf.rows[i].geom,
                              population |-> populations[i]]]]

\* extract_population_by_zones, whole: one zonal_stats call over all zones
\* (a zone it cannot process fails the call), then the three columns.
extract_population_by_zones(raster, zones) ==
    LET m == ExtractMatchCRS(zones, raster)
        stats == [i \in DOMAIN m.gdf.rows |->
                     zonal_stats(m.gdf.rows[i].geom, raster, ExtractNodata, FALSE)]
        samples == [i \in DOMAIN m.gdf.rows |->
                       [zones_crs |-> m.gdf.crs, raster_crs |-> raster.crs]]
    IN IF ~m.ok
       THEN [ok |-> FALSE, error |-> m.error, gdf |-> zones,
             reprojected |-> FALSE, samples |-> <<>>, result |-> None]
       ELSE IF \E i \in DOMAIN stats : ~stats[i].ok
            THEN [ok |-> FALSE, error |-> "GeometryError", gdf |-> m.gdf,
                  reprojected |-> m.reprojected, samples |-> samples,
                  result |-> None]
            ELSE LET out == [m.gdf EXCEPT !.rows =
                                [i \in DOMAIN m.gdf.rows |->
                                    [label |-> m.gdf.rows[i].label,
                                     geom |-> m.gdf.rows[i].geom,
                                     population_sum |-> stats[i].sum,
                                     population_mean |-> stats[i].mean,
                                     population_count |-> stats[i].count]]]
                 IN [ok |-> TRUE, error |-> "", gdf |-> out,
                     reprojected |-> m.reprojected, samples |-> samples,
                     result |-> Some(out)]

ZxIdle == [pc |-> "idle"]

\* The boundary file and the raster file a caller hands over, and the
\* cell-inclusion policy the deployment's configuration asks for (neither
\* operation takes a configuration).
ZxBegin(mode, zones, raster, all_touched) ==
    [pc |-> "begin", mode |-> mode, boundary |-> zones, raster |-> raster,
     config_all_touched |-> all_touched,
     gdf |-> zones, handle |-> "closed", populations |-> <<>>, i |-> 1,
     reprojected |-> FALSE, samples |-> <<>>, error |-> "",
     output |-> None, result |-> None]

ZxStartRun ==
    /\ zx.pc = "idle"
    /\ \E z \in ZoneSets, r \in Rasters, a \in BOOLEAN :
          zx' = ZxBegin("run", z, r, a)
    /\ UNCHANGED <<grid, acc, vec, pl, mr>>

ZxStartExtract ==
    /\ zx.pc = "idle"
    /\ \E z \in ZoneSets, r \in Rasters, a \in BOOLEAN :
          zx' = ZxBegin("extract", z, r, a)
    /\ UNCHANGED <<grid, acc, vec, pl, mr>>

\* run: gpd.read_file, then rasterio.open enters the with block.
ZxOpenRaster ==
    /\ zx.pc = "begin" /\ zx.mode = "run"
    /\ zx' = [zx EXCEPT !.pc = "match", !.handle = "open"]
    /\ UNCHANGED <<grid, acc, vec, pl, mr>>

\* rasterio.open raises (the raster file cannot be read).
ZxOpenRasterFails ==
    /\ zx.pc = "begin" /\ zx.mode = "run"
    /\ zx' = [zx EXCEPT !.pc = "failed", !.error = "RasterioIOError"]
    /\ UNCHANGED <<grid, acc, vec, pl, mr>>

\* run: the CRS comparison; a failing to_crs leaves the with block.
ZxMatchCRS ==
    /\ zx.pc = "match"
    /\ LET m == RunMatchCRS(zx.gdf, zx.raster)
       IN zx' = [zx EXCEPT !.pc = IF m.ok THEN "loop" ELSE "failed",
                           !.gdf = m.gdf,
                           !.reprojected = m.reprojected,
                           !.error = m.error,
                           !.handle = IF m.ok THEN "open" ELSE "closed"]
    /\ UNCHANGED <<grid, acc, vec, pl, mr>>

\* run: one iteration of "for idx, row in gdf.iterrows()".
ZxRecord ==
    /\ zx.pc = "loop"
    /\ zx.i <= Len(zx.gdf.rows)
    /\ LET r == RunRecord(zx.gdf.rows[zx.i], zx.raster)
           sample == [zones_crs |-> zx.gdf.crs, raster_crs |-> zx.raster.crs]
       IN zx' = IF r.raised
                THEN [zx EXCEPT !.pc = "failed", !.error = "GeometryError",
                                !.handle = "closed",
                                !.samples = Append(@, sample)]
                ELSE [zx EXCEPT !.populations = Append(@, r.pop),
                                !.i = @ + 1,
                                !.samples = Append(@, sample)]
    /\ UNCHANGED <<grid, acc, vec, pl, mr>>

\* run: the loop is over; the column is assigned and the with block exits.
ZxAssign ==
    /\ zx.pc = "loop"
    /\ zx.i > Len(zx.gdf.rows)
    /\ zx' = [zx EXCEPT !.pc = "save",
                        !.gdf = AssignPopulation(zx.gdf, zx.populations),
                        !.handle = "closed"]
    /\ UNCHANGED <<grid, acc, vec, pl, mr>>

\* run: gdf.to_file(output_path) and return gdf.
ZxSave ==
    /\ zx.pc = "save"
    /\ zx' = [zx EXCEPT !.pc = "done", !.output = Some(zx.gdf),
                        !.result = Some(zx.gdf)]
    /\ UNCHANGED <<grid, acc, vec, pl, mr>>

\* gdf.to_file raises (the output cannot be written).
ZxSaveFails ==
    /\ zx.pc = "save"
    /\ zx' = [zx EXCEPT !.pc = "failed", !.error = "IOError"]
    /\ UNCHANGED <<grid, acc, vec, pl, mr>>

ExtractPopulationByZones ==
    /\ zx.pc = "begin" /\ zx.mode = "extract"
    /\ LET r == extract_population_by_zones(zx.raster, zx.gdf)
       IN zx' = [zx EXCEPT !.pc = IF r.ok THEN "done" ELSE "failed",
                           !.gdf = r.gdf,
                           !.reprojected = r.reprojected,
                           !.samples = r.samples,
                           !.error = r.error,
                           !.result = r.result]
    /\ UNCHANGED <<grid, acc, vec, pl, mr>>

(***************************************************************************)
(* RasterProcessor.merge_rasters                                           *)
(*                                                                         *)
(* raster_paths is a list of files, each readable or not; every source     *)
(* handle the call opens is "open" until something closes it.              *)
(***************************************************************************)
MaxRasters == 4

\* raster_paths: TRUE is a file rasterio can open.
RasterPathLists == SeqsUpTo(BOOLEAN, MaxRasters)

MrIdle == [pc |-> "idle"]

MrStart ==
    /\ mr.pc = "idle"
    /\ \E paths \in RasterPathLists :
          mr' = [pc |-> "opening", raster_paths |-> paths,
                 src_files_to_mosaic |-> <<>>, dest |-> "unopened",
                 closed |-> 0, error |-> "", result |-> None]
    /\ UNCHANGED <<grid, acc, vec, zx, pl>>

\* for path in raster_paths: src = rasterio.open(path); append(src)
MrOpenSource ==
    /\ mr.pc = "opening"
    /\ Len(mr.src_files_to_mosaic) < Len(mr.raster_paths)
    /\ mr.raster_paths[Len(mr.src_files_to_mosaic) + 1]
    /\ mr' = [mr EXCEPT !.src_files_to_mosaic = Append(@, "open")]
    /\ UNCHANGED <<grid, acc, vec, zx, pl>>

\* rasterio.open raises on a path it cannot read: the call ends there, with
\* the handles opened so far still in the list.
MrOpenSourceFails ==
    /\ mr.pc = "opening"
    /\ Len(mr.src_files_to_mosaic) < Len(mr.raster_paths)
    /\ ~mr.raster_paths[Len(mr.src_files_to_mosaic) + 1]
    /\ mr' = [mr EXCEPT !.pc = "failed", !.error = "RasterioIOError"]
    /\ UNCHANGED <<grid, acc, vec, zx, pl>>

\* mosaic, out_trans = merge(src_files_to_mosaic), then the metadata of the
\* first source.
MrMerge ==
    /\ mr.pc = "opening"
    /\ Len(mr.src_files_to_mosaic) = Len(mr.raster_paths)
    /\ Len(mr.src_files_to_mosaic) > 0
    /\ mr' = [mr EXCEPT !.pc = "merged"]
    /\ UNCHANGED <<grid, acc, vec, zx, pl>>

\* merge raises (an empty list always does; sources that cannot be
\* mosaicked may).
MrMergeFails ==
    /\ mr.pc = "opening"
    /\ Len(mr.src_files_to_mosaic) = Len(mr.raster_paths)
    /\ mr' = [mr EXCEPT !.pc = "failed", !.error = "MergeError"]
    /\ UNCHANGED <<grid, acc, vec, zx, pl>>

\* with rasterio.open(output_path, "w", **out_meta) as dest:
MrOpenDest ==
    /\ mr.pc = "merged"
    /\ mr' = [mr EXCEPT !.pc = "writing", !.dest = "open"]
    /\ UNCHANGED <<grid, acc, vec, zx, pl>>

MrOpenDestFails ==
    /\ mr.pc = "merged"
    /\ mr' = [mr EXCEPT !.pc = "failed", !.error = "RasterioIOError"]
    /\ UNCHANGED <<grid, acc, vec, zx, pl>>

\* dest.write(mosaic); the with block closes dest.
MrWrite ==
    /\ mr.pc = "writing"
    /\ mr' = [mr EXCEPT !.pc = "closing", !.dest = "closed"]
    /\ UNCHANGED <<grid, acc, vec, zx, pl>>

\* dest.write raises: the with block closes dest, nothing closes the sources.
MrWriteFails ==
    /\ mr.pc = "writing"
    /\ mr' = [mr EXCEPT !.pc = "failed", !.dest = "closed",
                        !.error = "RasterioIOError"]
    /\ UNCHANGED <<grid, acc, vec, zx, pl>>

\* for src in src_files_to_mosaic: src.close()
MrCloseSource ==
    /\ mr.pc = "closing"
    /\ mr.closed < Len(mr.src_files_to_mosaic)
    /\ mr' = [mr EXCEPT !.src_files_to_mosaic[mr.closed + 1] = "closed",
                        !.closed = @ + 1]
    /\ UNCHANGED <<grid, acc, vec, zx, pl>>

\* return output_path
MrReturn ==
    /\ mr.pc = "closing"
    /\ mr.closed = Len(mr.src_files_to_mosaic)
    /\ mr' = [mr EXCEPT !.pc = "done", !.result = Some("output_path")]
    /\ UNCHANGED <<grid, acc, vec, zx, pl>>

(***************************************************************************)
(* Pipeline.run                                                            *)
(*                                                                         *)
(* The stages of run in program order, each with its steps in program      *)
(* order.  A step either completes or raises; what is raised inside the    *)
(* try block reaches the except clause of run.                             *)
(***************************************************************************)
\* run with the zonal statistics moved ahead of process_data.
StagesZonalFirst ==
    << "download_data", "zonal_statistics", "process_data",
       "analyze_accessibility", "visualize", "save_outputs" >>

Stages ==
    << "download_data", "process_data", "zonal_statistics",
       "analyze_accessibility", "visualize", "save_outputs" >>

StageSteps ==
    [download_data |-> << "download_data" >>,
     process_data |->
         << "load_shapefile", "reproject", "load_facilities", "facilities_to_crs",
            "save_facilities_geojson", "remove_empty_geometry", "clip_to_bounds" >>,
     zonal_statistics |-> << "save_temp_boundaries", "extractor_run" >>,
     analyze_accessibility |->
         << "create_population_grid", "calculate_distances",
            "classify_accessibility", "calculate_stats" >>,
     visualize |-> << "facility_map", "accessibility_map" >>,
     save_outputs |->
         << "save_facilities", "save_boundaries", "save_accessibility",
            "save_stats" >>]

\* What a run starts from: the configuration switches, the CRS of the boundary
\* shapefile, and whether any facility is left after clipping.
PlEnvironments ==
    [download_enabled : BOOLEAN,
     generate_facility_map : BOOLEAN,
     generate_accessibility_map : BOOLEAN,
     boundary_file_crs : CRSValues,
     has_facilities : BOOLEAN]

PlIdle == [pc |-> "idle"]

PlBegin(env) ==
    [pc |-> "running", env |-> env, stage |-> 1, step |-> 1,
     started |-> <<>>, completed |-> <<>>, failed |-> None,
     logged |-> FALSE, result |-> None, files |-> {},
     boundaries_crs |-> None, facilities_crs |-> None, grid_crs |-> None,
     pop_gdf |-> FALSE]

CurrentStage(st) == Stages[st.stage]
CurrentStep(st) == StageSteps[CurrentStage(st)][st.step]

\* visualize: a map is generated only if the configuration asks for it.
Skipped(st, step) ==
    \/ step = "facility_map" /\ ~st.env.generate_facility_map
    \/ step = "accessibility_map" /\ ~st.env.generate_accessibility_map

\* Steps that cannot raise: download_data with downloads disabled only logs.
CanRaise(st, step) ==
    /\ ~Skipped(st, step)
    /\ step = "download_data" => st.env.download_enabled

\* Steps that cannot complete: argmin over an empty facility set raises.
CanComplete(st, step) ==
    step = "calculate_distances" => st.env.has_facilities

\* The file a step writes, if any.
FileOf(step) ==
    CASE step = "save_facilities_geojson" -> {"Health_facilities/facilities.geojson"}
      [] step = "save_temp_boundaries" -> {"temp_boundaries.geojson"}
      [] step = "extractor_run" -> {"population_zonal_output"}
      [] step = "facility_map" -> {"facility_map.html"}
      [] step = "accessibility_map" -> {"accessibility_map.html"}
      [] step = "save_facilities" -> {"facilities_processed.geojson"}
      [] step = "save_boundaries" -> {"boundaries.geojson"}
      [] step = "save_accessibility" -> {"accessibility_grid.geojson"}
      [] step = "save_stats" -> {"statistics.json"}
      [] OTHER -> {}

\* The position after the current step: the next step of the stage, the first
\* step of the next stage, or the return statement.
Advance(st) ==
    IF st.step < Len(StageSteps[CurrentStage(st)])
    THEN [st EXCEPT !.step = @ + 1]
    ELSE IF st.stage < Len(Stages)
         THEN [st EXCEPT !.stage = @ + 1, !.step = 1]
         ELSE [st EXCEPT !.pc = "return"]

\* process_data without the CRS match: the facilities keep the loader's CRS.
FacilitiesKeepCRS(facilities_crs, boundaries_crs) == facilities_crs

\* process_data: if facilities.crs != boundaries.crs:
\*                   facilities = facilities.to_crs(boundaries.crs)
FacilitiesMatchCRS(facilities_crs, boundaries_crs) ==
    IF facilities_crs # boundaries_crs THEN boundaries_crs ELSE facilities_crs

\* The CRS of the boundaries after processor.reproject(boundaries, crs_utm).
ReprojectedBoundariesCRS(boundaries_crs) ==
    reproject([crs |-> boundaries_crs, rows |-> <<>>], crs_utm).gdf.crs

\* The effect of a completed step on the frames and files of the run.
StepEffect(st, step) ==
    LET crs ==
            CASE step = "load_shapefile" ->
                     [st EXCEPT !.boundaries_crs = st.env.boundary_file_crs]
              [] step = "reproject" ->
                     [st EXCEPT !.boundaries_crs =
                                    ReprojectedBoundariesCRS(st.boundaries_crs)]
              [] step = "load_facilities" ->
                     [st EXCEPT !.facilities_crs = Some(crs_wgs84)]
              [] step = "facilities_to_crs" ->
                     [st EXCEPT !.facilities_crs =
                                    FacilitiesMatchCRS(st.facilities_crs,
                                                       st.boundaries_crs)]
              [] step = "create_population_grid" ->
                     [st EXCEPT !.grid_crs = st.boundaries_crs]
              [] step = "extractor_run" ->
                     [st EXCEPT !.pop_gdf = TRUE]
              [] OTHER -> st
    IN [crs EXCEPT !.files = @ \cup FileOf(step),
                   !.started = Append(@, step),
                   !.completed = Append(@, step)]

\* A log-and-continue handler: the failure is logged and the run goes on.
ExceptClauseSwallow(st, step) ==
    Advance([st EXCEPT !.started = Append(@, step),
                       !.failed = Some(step),
                       !.logged = TRUE])

\* run's except clause: logger.error(...), then raise.
ExceptClause(st, step) ==
    [st EXCEPT !.pc = "raised",
               !.started = Append(@, step),
               !.failed = Some(step),
               !.logged = TRUE]

PlStart ==
    /\ pl.pc = "idle"
    /\ \E env \in PlEnvironments : pl' = PlBegin(env)
    /\ UNCHANGED <<grid, acc, vec, zx, mr>>

\* The current step of stage `name` completes (or is skipped).
PlStage(name) ==
    /\ pl.pc = "running"
    /\ CurrentStage(pl) = name
    /\ LET step == CurrentStep(pl)
       IN /\ CanComplete(pl, step)
          /\ pl' = IF Skipped(pl, step)
                   THEN Advance(pl)
                   ELSE Advance(StepEffect(pl, step))
    /\ UNCHANGED <<grid, acc, vec, zx, mr>>

PlDownloadData == PlStage("download_data")
PlProcessData == PlStage("process_data")
PlZonalStatistics == PlStage("zonal_statistics")
PlAnalyzeAccessibility == PlStage("analyze_accessibility")
PlVisualize == PlStage("visualize")
PlSaveOutputs == PlStage("save_outputs")

\* The current step raises inside the try block.
PlRaise ==
    /\ pl.pc = "running"
    /\ CanRaise(pl, CurrentStep(pl))
    /\ pl' = ExceptClause(pl, CurrentStep(pl))
    /\ UNCHANGED <<grid, acc, vec, zx, mr>>

\* run returns the result dictionary.
PlReturn ==
    /\ pl.pc = "return"
    /\ pl' = [pl EXCEPT !.pc = "returned",
                        !.result = Some({"boundaries", "facilities", "population",
                                         "accessibility", "statistics"})]
    /\ UNCHANGED <<grid, acc, vec, zx, mr>>

(***************************************************************************)
(* Specifications                                                          *)
(***************************************************************************)
Init ==
    /\ grid = GridIdle
    /\ acc = AccIdle
    /\ vec = VecIdle
    /\ zx = ZxIdle
    /\ pl = PlIdle
    /\ mr = MrIdle

NextGrid == CreatePopulationGrid

SpecGrid == Init /\ [][NextGrid]_vars

NextAccess ==
    \/ AccLoad
    \/ AccLoadEmpty
    \/ CalculateDistances
    \/ ClassifyAccessibility
    \/ Analyze
    \/ CalculateStats

SpecAccess == Init /\ [][NextAccess]_vars

NextVector ==
    \/ VecLoad
    \/ Reproject
    \/ RemoveEmptyGeometry
    \/ ClipToBounds

SpecVector == Init /\ [][NextVector]_vars

NextZonal ==
    \/ ZxStartRun
    \/ ZxStartExtract
    \/ ZxOpenRaster
    \/ ZxOpenRasterFails
    \/ ZxMatchCRS
    \/ ZxRecord
    \/ ZxAssign
    \/ ZxSave
    \/ ZxSaveFails
    \/ ExtractPopulationByZones

SpecZonal == Init /\ [][NextZonal]_vars

NextPipeline ==
    \/ PlStart
    \/ PlDownloadData
    \/ PlProcessData
    \/ PlZonalStatistics
    \/ PlAnalyzeAccessibility
    \/ PlVisualize
    \/ PlSaveOutputs
    \/ PlRaise
    \/ PlReturn

SpecPipeline == Init /\ [][NextPipeline]_vars

NextMerge ==
    \/ MrStart
    \/ MrOpenSource
    \/ MrOpenSourceFails
    \/ MrMerge
    \/ MrMergeFails
    \/ MrOpenDest
    \/ MrOpenDestFails
    \/ MrWrite
    \/ MrWriteFails
    \/ MrCloseSource
    \/ MrReturn

SpecMerge == Init /\ [][NextMerge]_vars

\* Every component, one at a time.
Idle ==
    /\ grid = GridIdle /\ acc = AccIdle /\ vec = VecIdle
    /\ zx = ZxIdle /\ pl = PlIdle /\ mr = MrIdle

Next ==
    \/ Idle /\ (CreatePopulationGrid \/ AccLoad \/ AccLoadEmpty \/ VecLoad
                    \/ ZxStartRun \/ ZxStartExtract \/ PlStart \/ MrStart)
    \/ CalculateDistances \/ ClassifyAccessibility \/ Analyze \/ CalculateStats
    \/ Reproject \/ RemoveEmptyGeometry \/ ClipToBounds
    \/ ZxOpenRaster \/ ZxOpenRasterFails \/ ZxMatchCRS \/ ZxRecord \/ ZxAssign
    \/ ZxSave \/ ZxSaveFails \/ ExtractPopulationByZones
    \/ PlDownloadData \/ PlProcessData \/ PlZonalStatistics
    \/ PlAnalyzeAccessibility \/ PlVisualize \/ PlSaveOutputs
    \/ PlRaise \/ PlReturn
    \/ MrOpenSource \/ MrOpenSourceFails \/ MrMerge \/ MrMergeFails
    \/ MrOpenDest \/ MrOpenDestFails \/ MrWrite \/ MrWriteFails
    \/ MrCloseSource \/ MrReturn

Spec == Init /\ [][Next]_vars

(***************************************************************************)
(* Properties of create_population_grid                                    *)
(***************************************************************************)
GridXs == { grid.result.rows[k].x : k \in DOMAIN grid.result.rows }
GridYs == { grid.result.rows[k].y : k \in DOMAIN grid.result.rows }

RatMinIs(S, i) == (\E r \in S : RatEqInt(r, i)) /\ \A r \in S : i * r.den <= r.num
RatMaxIs(S, i) == (\E r \in S : RatEqInt(r, i)) /\ \A r \in S : r.num <= i * r.den

GridCountIsSquare ==
    Len(grid.result.rows) = grid.grid_size * grid.grid_size

GridMinIsBoxMin ==
    LET b == total_bounds(grid.boundaries)
    IN RatMinIs(GridXs, b.minx) /\ RatMinIs(GridYs, b.miny)

GridMaxIsBoxMax ==
    LET b == total_bounds(grid.boundaries)
    IN RatMaxIs(GridXs, b.maxx) /\ RatMaxIs(GridYs, b.maxy)

\* C1 (as stated): for every grid size N >= 1 the grid has N*N points and its
\* min/max x and y equal the bounding box's minx, maxx, miny, maxy.
C1_GridSpansBoundingBox ==
    grid.pc = "created" =>
        GridCountIsSquare /\ GridMinIsBoxMin /\ GridMaxIsBoxMax

\* C1 (amended): the grid has N*N points whose minimum x and y are the box's
\* minx and miny; for N >= 2 the maximum x and y are the box's maxx and maxy;
\* for N = 1 the single point is (minx, miny).
C1_GridSpansBoundingBoxFromTwo ==
    grid.pc = "created" =>
        /\ GridCountIsSquare
        /\ GridMinIsBoxMin
        /\ grid.grid_size >= 2 => GridMaxIsBoxMax
        /\ grid.grid_size = 1 =>
              LET b == total_bounds(grid.boundaries)
              IN /\ RatEqInt(grid.result.rows[1].x, b.minx)
                 /\ RatEqInt(grid.result.rows[1].y, b.miny)

C1_Witness ==
    /\ grid.pc = "created"
    /\ grid.grid_size = 3
    /\ Len(grid.boundaries.rows) = 2
    /\ LET b == total_bounds(grid.boundaries)
       IN b.minx < b.maxx /\ b.miny < b.maxy

(***************************************************************************)
(* Properties of calculate_distances, classify_accessibility and           *)
(* calculate_stats                                                         *)
(***************************************************************************)
DistancesAssigned ==
    /\ acc.pc # "idle"
    /\ acc.population.distance_to_facility_m # None

\* C2: with at least one facility, every recorded distance is >= 0, every
\* nearest_facility_idx is a position 0..len(facilities)-1, and a point that
\* shares its coordinates with some facility gets distance exactly 0.
C2_NearestDistanceInRange ==
    (DistancesAssigned /\ Len(acc.facilities) >= 1) =>
        \A i \in DOMAIN acc.population.geometry :
            LET m == acc.population.distance_to_facility_m[1][i]
                idx == acc.population.nearest_facility_idx[1][i]
                geom == acc.population.geometry[i]
            IN /\ m.sq >= 0 /\ m.div > 0
               /\ idx \in 0..(Len(acc.facilities) - 1)
               /\ (\E k \in DOMAIN acc.facilities :
                       acc.facilities[k].x = geom[1] /\ acc.facilities[k].y = geom[2])
                    => m.sq = 0

C2_Witness ==
    /\ DistancesAssigned
    /\ Len(acc.facilities) = 2
    /\ Len(acc.population.geometry) = 2
    /\ acc.population.distance_to_facility_m[1][1].sq = 0
    /\ acc.population.nearest_facility_idx[1][1] = 1
    /\ acc.population.distance_to_facility_m[1][2].sq > 0

\* C3: after classify_accessibility, for every point and every two thresholds
\* T1 < T2 that have a column, within_<T1>km implies within_<T2>km.
C3_ThresholdsMonotonic ==
    acc.pc \in {"classified", "stats"} =>
        \A t1, t2 \in DOMAIN acc.population.within :
            t1 < t2 =>
                \A i \in DOMAIN acc.population.geometry :
                    acc.population.within[t1][i] => acc.population.within[t2][i]

C3_Witness ==
    /\ acc.pc = "classified"
    /\ acc.last = "classify_accessibility"
    /\ {5, 10} \subseteq DOMAIN acc.population.within
    /\ Len(acc.population.geometry) = 2
    /\ acc.population.within[5][1] /\ acc.population.within[10][1]
    /\ ~acc.population.within[5][2] /\ acc.population.within[10][2]

\* The threshold list the last classification went through, in call order.
ThresholdsUsed ==
    IF acc.thresholds_km = None THEN acc.config ELSE acc.thresholds_km[1]

\* C13: after classify_accessibility, for every threshold t of the list and
\* every point, within_<t>km is exactly (distance <= t km), a distance equal
\* to t included, whatever the order the thresholds were listed in.
C13_FlagIsDistanceWithinThreshold ==
    (acc.pc \in {"classified", "stats"}
        /\ acc.last \in {"classify_accessibility", "analyze", "calculate_stats"}
        /\ Len(acc.population.geometry) > 0) =>
        /\ DOMAIN acc.population.within =
               { ThresholdsUsed[k] : k \in DOMAIN ThresholdsUsed }
        /\ \A t \in DOMAIN acc.population.within :
              \A i \in DOMAIN acc.population.geometry :
                  acc.population.within[t][i] <=>
                      (acc.population.distance_to_facility_m[1][i].sq
                          <= (t * 1000) * (t * 1000))

\* C13 witness: thresholds listed as 10, 5; a point exactly 5 km from its
\* nearest facility is within 5 km, a point 10 km away is not.
C13_Witness ==
    /\ acc.pc = "classified"
    /\ acc.last = "classify_accessibility"
    /\ acc.thresholds_km = Some(<<10, 5>>)
    /\ Len(acc.population.geometry) = 2
    /\ acc.population.distance_to_facility_m[1][1].sq = 5000 * 5000
    /\ acc.population.within[5][1] /\ acc.population.within[10][1]
    /\ acc.population.distance_to_facility_m[1][2].sq = 10000 * 10000
    /\ ~acc.population.within[5][2] /\ acc.population.within[10][2]

\* C14: for a non-empty accessibility set that has a column for every
\* configured threshold, calculate_stats returns total_facilities = number of
\* facilities and, for every configured threshold t, an entry whose count is
\* the number of points flagged within t and whose percentage is
\* 100 * count / number of points, with 0 <= count <= number of points and
\* 0 <= percentage <= 100.
C14_StatsCountAndPercentage ==
    (acc.pc # "idle" /\ acc.last = "calculate_stats"
        /\ Len(acc.population.geometry) > 0
        /\ \A k \in DOMAIN acc.config :
               acc.config[k] \in DOMAIN acc.population.within) =>
        /\ acc.pc = "stats"
        /\ acc.stats # None
        /\ acc.stats[1].total_facilities = Len(acc.facilities)
        /\ DOMAIN acc.stats[1].accessibility_by_threshold =
               { acc.config[k] : k \in DOMAIN acc.config }
        /\ \A k \in DOMAIN acc.config :
              LET t == acc.config[k]
                  n == Len(acc.population.geometry)
                  entry == acc.stats[1].accessibility_by_threshold[t]
                  flagged == { i \in 1..n : acc.population.within[t][i] }
              IN /\ entry.count = Cardinality(flagged)
                 /\ 0 <= entry.count /\ entry.count <= n
                 /\ entry.percentage # NaN
                 /\ entry.percentage[1].den > 0
                 /\ entry.percentage[1].num * n
                       = 100 * entry.count * entry.percentage[1].den
                 /\ 0 <= entry.percentage[1].num
                 /\ entry.percentage[1].num <= 100 * entry.percentage[1].den

\* C14 witness: two facilities, two points, one of them within 5 km: the
\* 5 km entry counts 1 and gives 50 percent.
C14_Witness ==
    /\ acc.pc = "stats" /\ acc.last = "calculate_stats"
    /\ Len(acc.facilities) = 2
    /\ Len(acc.population.geometry) = 2
    /\ acc.config = <<5, 10>>
    /\ acc.stats[1].total_facilities = 2
    /\ acc.stats[1].accessibility_by_threshold[5].count = 1
    /\ RatEqInt(acc.stats[1].accessibility_by_threshold[5].percentage[1], 50)
    /\ acc.stats[1].accessibility_by_threshold[10].count = 2

\* C20: when several facilities are at the same minimum distance from a
\* population point, calculate_distances records the one that comes first in
\* the facility set's iteration order.
C20_TieGoesToFirstFacility ==
    (DistancesAssigned /\ Len(acc.facilities) >= 1) =>
        \A i \in DOMAIN acc.population.geometry :
            LET pos == acc.population.nearest_facility_idx[1][i] + 1
                geom == acc.population.geometry[i]
            IN /\ pos \in DOMAIN acc.facilities
               /\ \A j \in DOMAIN acc.facilities :
                     /\ DistSq(acc.facilities[pos], geom) <= DistSq(acc.facilities[j], geom)
                     /\ (DistSq(acc.facilities[j], geom) = DistSq(acc.facilities[pos], geom))
                           => pos <= j

\* C20 witness: two different facilities, both 5 km from the first point;
\* the first of them is recorded.
C20_Witness ==
    /\ DistancesAssigned
    /\ Len(acc.facilities) = 2
    /\ acc.facilities[1].x # acc.facilities[2].x
    /\ DistSq(acc.facilities[1], acc.population.geometry[1]) = 5000 * 5000
    /\ DistSq(acc.facilities[2], acc.population.geometry[1]) = 5000 * 5000
    /\ acc.population.nearest_facility_idx[1][1] = 0

\* C22: calculate_stats on a result produced by analyze finds a column for
\* every configured threshold and returns statistics with an entry for each;
\* on a result classified with an explicit list that omits a configured
\* threshold it fails on the missing column and returns no statistics.
C22_StatsColumnsMatchConfiguration ==
    (acc.pc # "idle" /\ acc.last = "calculate_stats") =>
        LET configured == { acc.config[k] : k \in DOMAIN acc.config }
            listed == { ThresholdsUsed[k] : k \in DOMAIN ThresholdsUsed }
        IN /\ acc.classified_by = "analyze" =>
                 /\ acc.pc = "stats" /\ acc.error = ""
                 /\ configured \subseteq DOMAIN acc.population.within
                 /\ DOMAIN acc.stats[1].accessibility_by_threshold = configured
           /\ (acc.classified_by = "classify_accessibility"
                  /\ ~(configured \subseteq listed)) =>
                 /\ acc.pc = "failed" /\ acc.error = "KeyError"
                 /\ acc.stats = None

\* C22 witness: analyze classified two points under the configured list
\* 10, 5 and calculate_stats returned an entry for both thresholds.
C22_Witness ==
    /\ acc.pc = "stats" /\ acc.last = "calculate_stats"
    /\ acc.classified_by = "analyze"
    /\ acc.config = <<10, 5>>
    /\ Len(acc.population.geometry) = 2
    /\ DOMAIN acc.stats[1].accessibility_by_threshold = {5, 10}
    /\ acc.stats[1].accessibility_by_threshold[5].count = 1

\* C23: in the result of calculate_distances, for every point the facility
\* at position nearest_facility_idx lies at distance exactly
\* distance_to_facility_m from it, no facility is closer, and
\* distance_to_facility_km = distance_to_facility_m / 1000; the result has
\* one row per input grid point, in the input order.
C23_NearestFacilityConsistent ==
    (DistancesAssigned /\ Len(acc.facilities) >= 1) =>
        /\ acc.population.geometry = acc.input
        /\ Len(acc.population.nearest_facility_idx[1]) = Len(acc.input)
        /\ Len(acc.population.distance_to_facility_m[1]) = Len(acc.input)
        /\ Len(acc.population.distance_to_facility_km[1]) = Len(acc.input)
        /\ \A i \in DOMAIN acc.input :
              LET m == acc.population.distance_to_facility_m[1][i]
                  km == acc.population.distance_to_facility_km[1][i]
                  pos == acc.population.nearest_facility_idx[1][i] + 1
              IN /\ pos \in DOMAIN acc.facilities
                 /\ m.div = 1
                 /\ m.sq = DistSq(acc.facilities[pos], acc.input[i])
                 /\ \A j \in DOMAIN acc.facilities :
                       DistSq(acc.facilities[j], acc.input[i]) >= m.sq
                 /\ km.sq = m.sq /\ km.div = 1000 * m.div

\* C23 witness: two points and two facilities; the first point is 5 km from
\* the second facility and farther from the first, the second point is
\* nearest to the first facility.
C23_Witness ==
    /\ DistancesAssigned
    /\ Len(acc.facilities) = 2 /\ Len(acc.input) = 2
    /\ acc.population.nearest_facility_idx[1] = <<1, 0>>
    /\ acc.population.distance_to_facility_m[1][1] = [sq |-> 5000 * 5000, div |-> 1]
    /\ acc.population.distance_to_facility_km[1][1] = [sq |-> 5000 * 5000, div |-> 1000]
    /\ DistSq(acc.facilities[1], acc.input[1]) > 5000 * 5000

\* C6: calculate_stats on an accessibility set of zero records fails with
\* EmptyDatasetError and returns no statistics record.
C6_EmptySetRaisesEmptyDatasetError ==
    (acc.pc # "idle" /\ acc.last = "calculate_stats"
        /\ Len(acc.population.geometry) = 0) =>
        /\ acc.error = "EmptyDatasetError"
        /\ acc.stats = None

(***************************************************************************)
(* Properties of the VectorProcessor                                       *)
(***************************************************************************)
\* C7: clip_to_bounds on a feature set and a boundary whose CRSs differ fails
\* with CRSMismatchError, reprojects neither input and returns no clipped
\* result.
C7_ClipRejectsCRSMismatch ==
    (vec.pc # "idle" /\ vec.last = "clip_to_bounds"
        /\ vec.gdf.crs # vec.bounds.crs) =>
        /\ vec.error = "CRSMismatchError"
        /\ vec.clipped = None

\* C11: reproject on a feature set whose CRS is unset treats the coordinates
\* as crs_wgs84 and transforms them from there: the call succeeds, the result
\* carries the target CRS, and it has the same records in the same order.
C11_UnsetCRSDefaultsToWGS84 ==
    (vec.pc # "idle" /\ vec.last = "reproject" /\ vec.arg.crs = None) =>
        /\ vec.pc = "loaded"
        /\ vec.gdf.crs = vec.target
        /\ Len(vec.gdf.rows) = Len(vec.arg.rows)
        /\ \A i \in DOMAIN vec.arg.rows :
              /\ vec.gdf.rows[i].label = vec.arg.rows[i].label
              /\ vec.gdf.rows[i].geom =
                     TransformGeom(vec.arg.rows[i].geom, crs_wgs84, vec.target[1])

\* C11 witness: two records without a CRS were reprojected to crs_utm and
\* the second one's coordinates moved.
C11_Witness ==
    /\ vec.pc = "loaded" /\ vec.last = "reproject"
    /\ vec.arg.crs = None /\ vec.target = Some(crs_utm)
    /\ Len(vec.arg.rows) = 2
    /\ vec.arg.rows[2].geom = PointGeom(300, 300)
    /\ vec.gdf.rows[2].geom = PointGeom(30000, 30000)
    /\ vec.gdf.rows[2].label = 1

\* C12: remove_empty_geometry returns exactly the records whose geometry is
\* neither null nor empty, in their original order: every record with a null
\* geometry and every record with an empty geometry is dropped.
C12_NullAndEmptyGeometriesDropped ==
    (vec.pc # "idle" /\ vec.last = "remove_empty_geometry") =>
        LET usable(row) == row.geom.kind \notin {"null", "empty"}
        IN vec.gdf.rows = SelectSeq(vec.arg.rows, usable)

(***************************************************************************)
(* Properties of zonal extraction                                          *)
(***************************************************************************)
\* Zone i of the input, in the raster's CRS (the input has a CRS).
ZoneInRasterCRS(i) ==
    TransformGeom(zx.boundary.rows[i].geom, zx.boundary.crs[1], zx.raster.crs[1])

\* The cells of zone i that are valid: centre inside, value not the raster's
\* nodata.
ValidCells(i) ==
    { k \in CellsOf(ZoneInRasterCRS(i), zx.raster, FALSE) :
        zx.raster.cells[k] # zx.raster.nodata }

\* The population sum a finished extraction recorded for a row.
RecordedSum(row) ==
    IF "population" \in DOMAIN row THEN Some(row.population) ELSE row.population_sum

\* C4: a polygon that overlaps no valid raster cell gets a population sum of
\* exactly 0 (never None), in run and in extract_population_by_zones.
C4_NoValidCellGivesZeroSum ==
    zx.pc = "done" =>
        \A i \in DOMAIN zx.gdf.rows :
            (zx.boundary.rows[i].geom.valid /\ ValidCells(i) = {}) =>
                RecordedSum(zx.gdf.rows[i]) = Some(0)

\* What run must record for row i: 0 for a row whose statistic fails or finds
\* no valid cell, the sum of its valid cells otherwise.
ExpectedPopulation(i) ==
    IF ~zx.boundary.rows[i].geom.valid \/ ValidCells(i) = {}
    THEN 0
    ELSE SumCells(zx.raster, ValidCells(i))

\* C5: in run a failing record is caught and gets population 0, every other
\* record keeps its own computed value, and the failure never ends the run.
C5_RecordFailureTolerated ==
    (zx.pc # "idle" /\ zx.mode = "run") =>
        /\ zx.error # "GeometryError"
        /\ \A i \in DOMAIN zx.populations : zx.populations[i] = ExpectedPopulation(i)
        /\ zx.pc \in {"save", "done"} =>
              /\ Len(zx.populations) = Len(zx.boundary.rows)
              /\ Len(zx.gdf.rows) = Len(zx.boundary.rows)
              /\ \A i \in DOMAIN zx.gdf.rows :
                    zx.gdf.rows[i].population = ExpectedPopulation(i)

C5_Witness ==
    /\ zx.pc = "done" /\ zx.mode = "run"
    /\ Len(zx.gdf.rows) = 3
    /\ zx.boundary.rows[1].geom.valid /\ zx.gdf.rows[1].population > 0
    /\ ~zx.boundary.rows[2].geom.valid /\ zx.gdf.rows[2].population = 0
    /\ zx.boundary.rows[3].geom.valid /\ zx.gdf.rows[3].population > 0

ZonesSampled == zx.pc # "idle" /\ (zx.samples # <<>> \/ zx.pc \in {"loop", "save", "done"})

\* C8: every polygon is sampled with the zones in the raster's CRS; the zones
\* were reprojected (their coordinates transformed) exactly when their CRS
\* differed from the raster's.
C8_ZonesSampledInRasterCRS ==
    ZonesSampled =>
        /\ \A k \in DOMAIN zx.samples :
              zx.samples[k].zones_crs = zx.samples[k].raster_crs
        /\ zx.gdf.crs = zx.raster.crs
        /\ zx.reprojected <=> (zx.boundary.crs # zx.raster.crs)
        /\ \A i \in DOMAIN zx.gdf.rows :
              IF zx.boundary.crs = zx.raster.crs
              THEN zx.gdf.rows[i].geom = zx.boundary.rows[i].geom
              ELSE /\ zx.boundary.crs # None
                   /\ zx.gdf.rows[i].geom = ZoneInRasterCRS(i)

C8_Witness ==
    /\ zx.pc = "done"
    /\ zx.boundary.crs # zx.raster.crs
    /\ zx.reprojected
    /\ Len(zx.samples) >= 2
    /\ zx.gdf.rows[1].geom # zx.boundary.rows[1].geom

\* C9: the output has one row per input polygon, in the input order, with the
\* columns population_sum, population_mean and population_count, whatever mix
\* of succeeding and failing records the input holds.
C9_OneRowPerZoneWithStatColumns ==
    /\ zx.pc = "done" =>
          /\ Len(zx.gdf.rows) = Len(zx.boundary.rows)
          /\ \A i \in DOMAIN zx.gdf.rows :
                /\ zx.gdf.rows[i].label = zx.boundary.rows[i].label
                /\ {"population_sum", "population_mean", "population_count"}
                       \subseteq DOMAIN zx.gdf.rows[i]
    /\ zx.pc = "failed" => zx.error # "GeometryError"

\* The raster handle of run is closed once the with block has been left.
RunHandleClosedOnExit ==
    (zx.pc \in {"save", "done", "failed"}) => zx.handle = "closed"

\* No source handle and no destination handle of merge_rasters is open once
\* the call has ended, by return or by exception.
MergeHandlesClosedOnExit ==
    (mr.pc \in {"done", "failed"}) =>
        /\ \A k \in DOMAIN mr.src_files_to_mosaic :
              mr.src_files_to_mosaic[k] = "closed"
        /\ mr.dest # "open"

\* C19: every raster handle is closed on every exit path, exceptions
\* included: run leaves no handle open, and merge_rasters leaves no source
\* handle open when opening, merging or writing raises.
C19_RasterHandlesClosedOnExit ==
    /\ RunHandleClosedOnExit
    /\ MergeHandlesClosedOnExit

\* Every cell of the raster is valid and holds the value V.
AllCellsValidWith(V) ==
    /\ V # zx.raster.nodata
    /\ \A k \in DOMAIN zx.raster.cells : zx.raster.cells[k] = V

\* The sampled polygon of row i covers the raster's full extent.
CoversFullExtent(i) ==
    /\ zx.gdf.rows[i].geom.valid
    /\ zx.gdf.rows[i].geom.lo <= CellLo(zx.raster, 1)
    /\ CellHi(zx.raster, Len(zx.raster.cells)) <= zx.gdf.rows[i].geom.hi

\* C15: for a polygon covering the raster's full extent, where every cell is
\* valid and holds the same value V, the zonal statistics are
\* sum = V * cell_count, mean = V and count = cell_count (run asks for the
\* sum only and records it as the population).
C15_ConstantRasterStatistics ==
    zx.pc = "done" =>
        \A V \in {3, 7} :
            AllCellsValidWith(V) =>
                \A i \in DOMAIN zx.gdf.rows :
                    CoversFullExtent(i) =>
                        LET row == zx.gdf.rows[i]
                            cell_count == Len(zx.raster.cells)
                        IN IF zx.mode = "run"
                           THEN row.population = V * cell_count
                           ELSE /\ row.population_sum = Some(V * cell_count)
                                /\ row.population_mean # None
                                /\ RatEqInt(row.population_mean[1], V)
                                /\ row.population_count = cell_count

\* C15 witness: extract_population_by_zones finished on the two-cell raster
\* of constant value 7 with a zone set that was reprojected and whose first
\* polygon covers the full extent: sum 14, count 2.
C15_Witness ==
    /\ zx.pc = "done" /\ zx.mode = "extract"
    /\ AllCellsValidWith(7) /\ Len(zx.raster.cells) = 2
    /\ zx.reprojected
    /\ Len(zx.gdf.rows) >= 1
    /\ CoversFullExtent(1)
    /\ zx.gdf.rows[1].population_sum = Some(14)
    /\ zx.gdf.rows[1].population_count = 2

\* The nodata value the statistics call of the running operation is given.
NodataUsed == IF zx.mode = "run" THEN zx.raster.nodata ELSE ExtractNodata

\* The valid cells row i selects under a cell-inclusion policy.
PolicyCells(i, all_touched) ==
    { k \in CellsOf(zx.gdf.rows[i].geom, zx.raster, all_touched) :
        zx.raster.cells[k] # NodataUsed }

\* C16: the cell-inclusion policy is 'center point inside' unless the
\* configuration selects 'all cells touched'; when it does, the cells a
\* polygon touches without containing their centre are included in its sum.
C16_CellPolicyFollowsConfiguration ==
    zx.pc = "done" =>
        \A i \in DOMAIN zx.gdf.rows :
            LET ks == PolicyCells(i, zx.config_all_touched)
            IN (zx.gdf.rows[i].geom.valid /\ ks # {}) =>
                   RecordedSum(zx.gdf.rows[i]) = Some(SumCells(zx.raster, ks))

(***************************************************************************)
(* Properties of Pipeline.run                                              *)
(***************************************************************************)
\* C10: a failure raised by a step propagates out of run: the run ends at that
\* step, which is the last one started, and no result dictionary is returned.
C10_StageFailurePropagates ==
    (pl.pc # "idle" /\ pl.failed # None) =>
        /\ pl.pc = "raised"
        /\ pl.started[Len(pl.started)] = pl.failed[1]
        /\ pl.result = None

C10_Witness ==
    /\ pl.pc = "raised"
    /\ pl.failed = Some("calculate_distances")
    /\ "extractor_run" \in { pl.completed[k] : k \in DOMAIN pl.completed }
    /\ pl.result = None

\* The stages the ordering is about: reproject, clip, zonal statistics, grid
\* generation, distance computation, classification, statistics aggregation.
CoreOrder ==
    << "reproject", "clip_to_bounds", "extractor_run", "create_population_grid",
       "calculate_distances", "classify_accessibility", "calculate_stats" >>

CompletedSteps == { pl.completed[k] : k \in DOMAIN pl.completed }

\* C17: within one run the stages start in the order reproject, clip, zonal
\* statistics, grid generation, distance computation, classification,
\* statistics aggregation: when one of them has started, every earlier one
\* started before it and completed without error, and none starts twice.
C17_StagesRunInOrder ==
    pl.pc # "idle" =>
        /\ \A j, k \in DOMAIN pl.started :
              pl.started[j] = pl.started[k] => j = k
        /\ \A j \in DOMAIN pl.started :
              \A p \in DOMAIN CoreOrder :
                  pl.started[j] = CoreOrder[p] =>
                      \A q \in 1..(p - 1) :
                          /\ \E k \in 1..(j - 1) : pl.started[k] = CoreOrder[q]
                          /\ CoreOrder[q] \in CompletedSteps
                          /\ pl.failed # Some(CoreOrder[q])

\* C17 witness: the run returned after all seven stages completed.
C17_Witness ==
    /\ pl.pc = "returned"
    /\ \A p \in DOMAIN CoreOrder : CoreOrder[p] \in CompletedSteps
    /\ pl.started[Len(pl.started)] = "save_stats"

\* The steps of analyze_accessibility and of the stages after it.
LateSteps ==
    UNION { { StageSteps[n][k] : k \in DOMAIN StageSteps[n] } :
              n \in {"analyze_accessibility", "visualize", "save_outputs"} }

\* C18: when analyze_accessibility or a later stage fails after data
\* processing and zonal statistics completed, the processed boundaries, the
\* processed facilities and the population-per-zone collection have been
\* saved by the time run exits with the error.
C18_CompletedOutputsSavedOnFailure ==
    (pl.pc = "raised" /\ pl.failed[1] \in LateSteps) =>
        /\ "population_zonal_output" \in pl.files
        /\ "boundaries.geojson" \in pl.files
              \/ "temp_boundaries.geojson" \in pl.files
        /\ "facilities_processed.geojson" \in pl.files

\* The run is about to execute the given step.
AboutToCall(step) == pl.pc = "running" /\ CurrentStep(pl) = step

\* C21: at the moment clip_to_bounds is called the facilities and the
\* boundaries carry the configured planar CRS, and at the moment analyze is
\* called (its first step is calculate_distances) the facilities, the
\* boundaries and the sample grid all carry it, whatever CRS the boundary
\* file was loaded with, none included.
C21_CommonPlanarCRS ==
    /\ AboutToCall("clip_to_bounds") =>
          /\ pl.boundaries_crs = Some(crs_utm)
          /\ pl.facilities_crs = Some(crs_utm)
    /\ AboutToCall("calculate_distances") =>
          /\ pl.boundaries_crs = Some(crs_utm)
          /\ pl.facilities_crs = Some(crs_utm)
          /\ pl.grid_crs = Some(crs_utm)

\* C21 witness: the boundary file had no CRS and analyze is about to be
\* called with the three frames in crs_utm.
C21_Witness ==
    /\ AboutToCall("calculate_distances")
    /\ pl.env.boundary_file_crs = None
    /\ pl.boundaries_crs = Some(crs_utm)
    /\ pl.facilities_crs = pl.boundaries_crs
    /\ pl.grid_crs = pl.boundaries_crs

====
